---- MODULE Spec2Model ----
(***************************************************************************)
(* The verification-gated webhook handler of harsham_aws:                  *)
(*   src/lambdafunction.py   lambda_handler (request handler, gate,        *)
(*                           command dispatcher)                           *)
(*   src/detailsharsham.py   TelegramBot (phone normaliser, ledger access, *)
(*                           contact lookup, messaging calls)              *)
(* Strings are sequences of one-character strings, so that stripping,      *)
(* lower-casing, slicing and prefix tests are computed as the code does.   *)
(* The DynamoDB table is a function whose domain is the set of keys that   *)
(* hold an item.  Several invocations may be in flight at once; they       *)
(* interleave at the table's single-key get and put.                       *)
(***************************************************************************)
EXTENDS Integers, Sequences, FiniteSets, Bags, TLC

\* ------------------------------------------------------------------ bounds
\* number of handler invocations that can be in flight at the same time
MaxInFlight == 2
\* number of successful put_item calls after which the table accepts no more
MaxClock == 2

Chats == {1, 2}

\* ----------------------------------------------------------------- strings
Digits == {"0", "1", "2", "3", "4", "5", "6", "7", "8", "9"}
Whitespace == {" "}
UpperAlpha == <<"A","B","C","D","E","F","G","H","I","J","K","L","M",
                "N","O","P","Q","R","S","T","U","V","W","X","Y","Z">>
LowerAlpha == <<"a","b","c","d","e","f","g","h","i","j","k","l","m",
                "n","o","p","q","r","s","t","u","v","w","x","y","z">>

\* str.startswith
StartsWith(s, p) == Len(s) >= Len(p) /\ SubSeq(s, 1, Len(p)) = p

LowerChar(ch) ==
    IF \E k \in 1..Len(UpperAlpha) : UpperAlpha[k] = ch
    THEN LowerAlpha[CHOOSE k \in 1..Len(UpperAlpha) : UpperAlpha[k] = ch]
    ELSE ch

\* str.lower
Lower(s) == [k \in 1..Len(s) |-> LowerChar(s[k])]

RECURSIVE LStrip(_)
LStrip(s) == IF s # <<>> /\ Head(s) \in Whitespace THEN LStrip(Tail(s)) ELSE s

RECURSIVE RStrip(_)
RStrip(s) ==
    IF s # <<>> /\ s[Len(s)] \in Whitespace THEN RStrip(SubSeq(s, 1, Len(s) - 1)) ELSE s

\* str.strip
Strip(s) == RStrip(LStrip(s))

\* ------------------------------------------------------- phone normaliser
IsDigit(ch) == ch \in Digits

\* re.sub(r'\D', '', str(phone))
Cleaned(phone) == SelectSeq(phone, IsDigit)

CanonicalPrefix == <<"+", "9", "1", " ">>

\* normalize_phone keeping the country code of a 12-digit number in the
\* formatted digits
normalize_phone_keeps_code(phone) ==
    LET cleaned == Cleaned(phone) IN
    IF Len(cleaned) = 10
    THEN CanonicalPrefix \o SubSeq(cleaned, 1, 5) \o <<" ">> \o SubSeq(cleaned, 6, 10)
    ELSE IF Len(cleaned) = 12 /\ StartsWith(cleaned, <<"9", "1">>)
    THEN CanonicalPrefix \o SubSeq(cleaned, 1, 5) \o <<" ">> \o SubSeq(cleaned, 6, 12)
    ELSE cleaned

\* normalize_phone formatting 10-digit numbers only
normalize_phone_ten_only(phone) ==
    LET cleaned == Cleaned(phone) IN
    IF Len(cleaned) = 10
    THEN CanonicalPrefix \o SubSeq(cleaned, 1, 5) \o <<" ">> \o SubSeq(cleaned, 6, 10)
    ELSE cleaned

\* TelegramBot.normalize_phone
normalize_phone(phone) ==
    LET cleaned == Cleaned(phone) IN
    IF Len(cleaned) = 10
    THEN CanonicalPrefix \o SubSeq(cleaned, 1, 5) \o <<" ">> \o SubSeq(cleaned, 6, 10)
    ELSE IF Len(cleaned) = 12 /\ StartsWith(cleaned, <<"9", "1">>)
    THEN CanonicalPrefix \o SubSeq(cleaned, 3, 7) \o <<" ">> \o SubSeq(cleaned, 8, 12)
    ELSE IF Len(cleaned) = 13 /\ StartsWith(cleaned, <<"+", "9", "1">>)
    THEN CanonicalPrefix \o SubSeq(cleaned, 4, 8) \o <<" ">> \o SubSeq(cleaned, 9, 13)
    ELSE cleaned

\* ------------------------------------------------ optional (None) values
\* A value that may be absent (Python None / a missing key) is a sequence of
\* length 0 or 1.
Absent == <<>>
Some(v) == <<v>>
IsSome(o) == o # <<>>
Val(o) == o[1]

\* ------------------------------------------------------------ input data
\* raw phone numbers as they arrive in contact payloads and spreadsheets
PhoneA10 == <<"9", "8", "7", "6", "5", "4", "3", "2", "1", "0">>
PhoneA91 == <<"+", "9", "1", " ", "9", "8", "7", "6", "5", " ", "4", "3", "2", "1", "0">>
PhoneB10 == <<"9", "1", "2", "3", "4", "5", "6", "7", "8", "9">>
PhoneB91 == <<"+", "9", "1", "-", "9", "1", "2", "3", "4", "-", "5", "6", "7", "8", "9">>
PhoneN10 == <<"9", "0", "0", "0", "0", "0", "0", "0", "0", "1">>

\* five-digit halves, the 10-digit numbers made of two of them, and the ways
\* such a number is written: bare, with the 2-digit country code, with "+91",
\* with spaces, dashes and brackets between the digits
Halves ==
    { <<"9", "8", "7", "6", "5">>, <<"4", "3", "2", "1", "0">>,
      <<"9", "1", "2", "3", "4">>, <<"0", "0", "0", "0", "0">> }
TenDigitForms(a, b) == { a \o b, a \o <<" ">> \o b, <<"(">> \o a \o <<")", "-">> \o b }
CountryCodeForms(a, b) == { <<"9", "1">> \o a \o b, <<"9", "1", " ">> \o a \o <<"-">> \o b }
PlusCodeForms(a, b) ==
    { <<"+", "9", "1">> \o a \o b, <<"+", "9", "1", " ">> \o a \o <<" ">> \o b,
      <<"(", "+", "9", "1", ")", "-">> \o a \o <<"-">> \o b }
WrittenForms(a, b) == TenDigitForms(a, b) \cup CountryCodeForms(a, b) \cup PlusCodeForms(a, b)

\* numbers normalize_phone hands back as bare digits: too short, a trunk 0 in
\* front, 12 digits with another country code, 13 digits, no digit at all
OtherNumbers ==
    { <<"9", "8", "7", "6", "5", "4", "3", "2", "1">>,
      <<"0", "9", "8", "7", "6", "5", "4", "3", "2", "1", "0">>,
      <<"+", "4", "4", " ", "9", "8", "7", "6", "5", "4", "3", "2", "1", "0">>,
      <<"0", "9", "1", "9", "8", "7", "6", "5", "4", "3", "2", "1", "0">>,
      <<"N", "/", "A">> }

RawNumbers ==
    UNION { WrittenForms(a, b) : a \in Halves, b \in Halves } \cup OtherNumbers

\* the "Number" column of allowed_users.xlsx
AllowedSheet == {PhoneA10, PhoneB91}

\* message texts
TxtNone == <<>>
TxtSlashStart == <<"/", "s", "t", "a", "r", "t">>
TxtStart == <<"s", "t", "a", "r", "t">>
TxtSlashHelp == <<"/", "h", "e", "l", "p">>
TxtHelpMixed == <<" ", "/", "H", "e", "l", "p", " ">>
TxtHelp == <<"h", "e", "l", "p">>
TxtSlashAuto == <<"/", "a", "u", "t", "o">>
TxtAutoUpper == <<"A", "U", "T", "O">>
TxtPlumber == <<"p", "l", "u", "m", "b", "e", "r">>
TxtSlashDoc == <<"/", "w", "a", "s", "t", "e", "m", "a", "n", "a", "g", "e", "m", "e", "n", "t", "p", "d", "f">>
TxtUnknown == <<"x", "y", "z">>
TxtDoubleSlash == <<"/", "/", "h", "e", "l", "p">>
TxtSlash == <<"/">>

\* categories as they are written in contacts.xlsx
CatAutoPadded == <<" ", "A", "u", "t", "o", " ">>
CatShops == <<"s", "h", "o", "p", "s">>

\* the rows of contacts.xlsx, in file order
ContactSheet ==
    << [Category |-> CatAutoPadded, Name |-> "Ravi",  Number |-> PhoneA10],
       [Category |-> CatShops,      Name |-> "Kumar", Number |-> PhoneN10],
       [Category |-> CatAutoPadded, Name |-> "Anil",  Number |-> PhoneB91] >>

\* lambda_handler: the recognised tokens
contact_categories ==
    { <<"a", "u", "t", "o">>,
      <<"h", "o", "u", "s", "e", "k", "e", "e", "p", "i", "n", "g">>,
      <<"m", "i", "l", "k", "m", "a", "n">>,
      <<"a", "u", "t", "h", "o", "r", "i", "t", "i", "e", "s">>,
      <<"e", "l", "e", "c", "t", "r", "i", "c", "i", "a", "n">>,
      <<"p", "l", "u", "m", "b", "e", "r">>,
      <<"s", "e", "r", "v", "i", "c", "e", "s">>,
      <<"p", "a", "p", "e", "r", "b", "o", "y">>,
      <<"s", "h", "o", "p", "s">> }
document_command == <<"w", "a", "s", "t", "e", "m", "a", "n", "a", "g", "e", "m", "e", "n", "t", "p", "d", "f">>
help_command == <<"h", "e", "l", "p">>
start_text == <<"/", "s", "t", "a", "r", "t">>

\* the commands the help text enumerates, in its order
help_text ==
    << <<"h", "o", "u", "s", "e", "k", "e", "e", "p", "i", "n", "g">>,
       <<"a", "u", "t", "o">>,
       <<"m", "i", "l", "k", "m", "a", "n">>,
       <<"a", "u", "t", "h", "o", "r", "i", "t", "i", "e", "s">>,
       <<"e", "l", "e", "c", "t", "r", "i", "c", "i", "a", "n">>,
       <<"p", "l", "u", "m", "b", "e", "r">>,
       <<"s", "e", "r", "v", "i", "c", "e", "s">>,
       <<"s", "h", "o", "p", "s">>,
       <<"p", "a", "p", "e", "r", "b", "o", "y">>,
       <<"w", "a", "s", "t", "e", "m", "a", "n", "a", "g", "e", "m", "e", "n", "t", "p", "d", "f">> >>

\* object keys and scratch paths
ALLOWED_USERS_KEY == "allowed_users.xlsx"
CONTACTS_KEY == "contacts.xlsx"
WASTE_MANAGEMENT_PDF_KEY == "waste_management.pdf"

\* ---------------------------------------------------------------- events
\* The webhook event: body is "missing" (no 'body' key), "null" (the key is
\* there and its value is None), "malformed" (a string that is not JSON),
\* "nonobject" (JSON that json.loads turns into something without .get: a
\* list, a number, null) or "json" (an object); chat
\* is message.chat.id; text is message.text ('' when absent); contact is
\* message.contact with its user_id and phone_number; bad names the values of
\* the update that have another type than the handler expects: "chat.id" a
\* string int() rejects, "text" a value that is no string.
Contact(uid, phone) == [user_id |-> uid, phone_number |-> phone]
TypedEvent(body, chat, text, contact, bad) ==
    [body |-> body, chat |-> chat, text |-> text, contact |-> contact, bad |-> bad]
Event(body, chat, text, contact) == TypedEvent(body, chat, text, contact, {})
TextEvent(c, text) == Event("json", Some(c), text, Absent)
ContactEvent(c, uid, phone) == Event("json", Some(c), TxtNone, Some(Contact(uid, phone)))
NoEvent == Event("none", Absent, TxtNone, Absent)

EnvelopeEvents ==
    { Event("missing", Absent, TxtNone, Absent),
      Event("malformed", Absent, TxtNone, Absent),
      Event("json", Absent, TxtSlashHelp, Absent) }
GateEnvelopeEvents == { Event("missing", Absent, TxtNone, Absent) }

\* updates that make the handler raise before it reaches the gate
FaultEvents ==
    { Event("nonobject", Absent, TxtNone, Absent),
      Event("null", Absent, TxtNone, Absent),
      TypedEvent("json", Some(1), TxtSlashHelp, Absent, {"chat.id"}),
      TypedEvent("json", Some(1), TxtNone, Absent, {"text"}) }
GateFaultEvents == { Event("nonobject", Absent, TxtNone, Absent) }

\* the contact payloads of the gate specification: chat 1 sends its own
\* contact with several numbers, somebody else's contact, a contact without
\* user_id or without phone_number; chat 2 sends a number that is not allowed
ContactEvents ==
    { ContactEvent(1, Some(1), Some(p)) : p \in {PhoneA10, PhoneA91, PhoneB10, PhoneN10} }
    \cup { ContactEvent(2, Some(2), Some(PhoneN10)) }
    \cup { ContactEvent(1, Some(2), Some(PhoneA10)),
           ContactEvent(1, Absent, Some(PhoneA10)),
           ContactEvent(1, Some(1), Absent) }

GateTexts == {TxtNone, TxtSlashHelp}
DispatchTexts ==
    { TxtNone, TxtSlashStart, TxtStart, TxtSlashHelp, TxtHelpMixed, TxtHelp,
      TxtSlashAuto, TxtAutoUpper, TxtPlumber, TxtSlashDoc, TxtUnknown,
      TxtDoubleSlash, TxtSlash }

\* the events of the gate specification and of the dispatcher specification
GateEvents ==
    GateEnvelopeEvents \cup GateFaultEvents \cup ContactEvents
    \cup { TextEvent(c, t) : c \in Chats, t \in GateTexts }
DispatchEvents ==
    EnvelopeEvents \cup FaultEvents
    \cup { ContactEvent(1, Some(1), Some(PhoneA10)), ContactEvent(1, Some(1), Some(PhoneN10)),
           ContactEvent(1, Some(1), Absent) }
    \cup { TextEvent(1, t) : t \in DispatchTexts }

\* ----------------------------------------------------------------- state
VARIABLES
    allowed_numbers,  \* bot.allowed_numbers: the normalised allow-list
    contacts_df,      \* bot.contacts_df: the columns and rows of the directory
    tmp_files,        \* the files that exist under /tmp
    table,            \* the DynamoDB table: chat_id -> the item, when there is one
    now,              \* the clock that stamps verified_at
    inflight,         \* the invocations between line 63 and line 64: a bag of
                      \* [ev, seen, rfail]: the event, whether an item for the
                      \* chat existed when the gate read, whether get_item raised
    last,             \* the invocation that returned last: what it saw and did
    norm,             \* a raw phone number and what normalize_phone made of it,
                      \* applied once and applied again to its own result
    config            \* the environment at startup: whether TELEGRAM_BOT_TOKEN
                      \* and S3_BUCKET_NAME are set

vars == <<allowed_numbers, contacts_df, tmp_files, table, now, inflight, last, norm, config>>

\* --------------------------------------------------------- messaging calls
\* One call to the Telegram API: the chat, what is sent, the category or text
\* it names, the contact lines and the commands it lists.  send_message and
\* request_contact catch the transport's RequestException and only log it,
\* so the outcome of a call changes nothing the handler does afterwards.
Msg(to, kind, arg, lines, items) ==
    [to |-> to, kind |-> kind, arg |-> arg, lines |-> lines, items |-> items]

\* TelegramBot.send_message
send_message(chat_id, kind) == Msg(chat_id, kind, <<>>, <<>>, <<>>)

\* TelegramBot.request_contact
request_contact(chat_id) == Msg(chat_id, "request_contact", <<>>, <<>>, <<>>)

\* ----------------------------------------------------------------- ledger
Item(chat_id, phone_number, verified_at) ==
    [chat_id |-> chat_id, phone_number |-> phone_number, verified_at |-> verified_at]

\* is_user_verified answering True when get_item raises
is_user_verified_failopen(tbl, chat_id, raises) ==
    IF raises THEN TRUE ELSE IsSome(tbl[chat_id])

\* is_user_verified never finding the item (a key that matches nothing)
is_user_verified_blind(tbl, chat_id, raises) == FALSE

\* is_user_verified with the test inverted: 'Item' not in response
is_user_verified_inverted(tbl, chat_id, raises) ==
    IF raises THEN FALSE ELSE ~IsSome(tbl[chat_id])

\* TelegramBot.is_user_verified: 'Item' in response, False when get_item raises
is_user_verified(tbl, chat_id, raises) ==
    IF raises THEN FALSE ELSE IsSome(tbl[chat_id])

\* save_verified_user losing the item when put_item raises
save_verified_user_lossy(tbl, chat_id, phone_number, t, raises) ==
    IF raises THEN [tbl EXCEPT ![chat_id] = Absent]
    ELSE [tbl EXCEPT ![chat_id] = Some(Item(chat_id, phone_number, t))]

\* TelegramBot.save_verified_user: put_item, the exception logged and dropped
save_verified_user(tbl, chat_id, phone_number, t, raises) ==
    IF raises THEN tbl ELSE [tbl EXCEPT ![chat_id] = Some(Item(chat_id, phone_number, t))]

\* verify_contact saving the number as it arrived instead of formatted_number
verify_contact_stores_raw(allowed, tbl, chat_id, phone_number, t, raises) ==
    LET formatted_number == normalize_phone(phone_number) IN
    IF formatted_number \in allowed
    THEN [accepted |-> TRUE,
          table |-> save_verified_user(tbl, chat_id, phone_number, t, raises)]
    ELSE [accepted |-> FALSE, table |-> tbl]

\* verify_contact saving the user before it tests the allow-list
verify_contact_saves_first(allowed, tbl, chat_id, phone_number, t, raises) ==
    LET formatted_number == normalize_phone(phone_number) IN
    [accepted |-> formatted_number \in allowed,
     table |-> save_verified_user(tbl, chat_id, formatted_number, t, raises)]

\* verify_contact without the test of the allow-list
verify_contact_accepts_all(allowed, tbl, chat_id, phone_number, t, raises) ==
    LET formatted_number == normalize_phone(phone_number) IN
    [accepted |-> TRUE,
     table |-> save_verified_user(tbl, chat_id, formatted_number, t, raises)]

\* TelegramBot.verify_contact: the value it returns and the table it leaves
verify_contact(allowed, tbl, chat_id, phone_number, t, raises) ==
    LET formatted_number == normalize_phone(phone_number) IN
    IF formatted_number \in allowed
    THEN [accepted |-> TRUE,
          table |-> save_verified_user(tbl, chat_id, formatted_number, t, raises)]
    ELSE [accepted |-> FALSE, table |-> tbl]

\* ----------------------------------------------------------- the request
\* lines 32-49: one of the three validation returns is taken
Invalid(ev) == ev.body \in {"missing", "malformed"} \/ (ev.body = "json" /\ ~IsSome(ev.chat))

\* json.loads raises TypeError on None (line 38) or returns no object (line 43
\* raises), int() rejects the chat id (line 51 raises) or the text has no
\* .strip (line 53 raises)
Faulty(ev) ==
    ev.body \in {"null", "nonobject"} \/ (ev.body = "json" /\ IsSome(ev.chat) /\ ev.bad # {})

\* the handler reaches the gate of line 57
Valid(ev) == ev.body = "json" /\ IsSome(ev.chat) /\ ev.bad = {}
chat_id_of(ev) == Val(ev.chat)
user_message_text(ev) == Lower(Strip(ev.text))

\* line 61 without the comparison of user_id with chat_id
HasAnyContact(ev) == IsSome(ev.contact)

\* line 61: "contact" in message and message["contact"].get("user_id") == chat_id
HasOwnContact(ev) ==
    IsSome(ev.contact) /\ Val(ev.contact).user_id = Some(chat_id_of(ev))

\* the except clause sending the apology before and after it logs
error_calls_twice(ev) ==
    IF ev.body = "json" /\ IsSome(ev.chat) /\ "chat.id" \notin ev.bad
    THEN << send_message(chat_id_of(ev), "apology"), send_message(chat_id_of(ev), "apology") >>
    ELSE << >>

\* lines 133-146: the apology goes to the chat id the except clause reads from
\* the body again; nothing is sent when that read raises as well (the body is
\* None or no object, or int() rejects the chat id)
error_calls(ev) ==
    IF ev.body = "json" /\ IsSome(ev.chat) /\ "chat.id" \notin ev.bad
    THEN << send_message(chat_id_of(ev), "apology") >>
    ELSE << >>

\* the 400 responses of lines 32-49
ValidationError(ev) ==
    IF ev.body = "missing" THEN "body_missing"
    ELSE IF ev.body = "malformed" THEN "invalid_json"
    ELSE "chat_id_not_found"

\* What an invocation leaves behind when it returns: its event, what
\* is_user_verified returned, whether an item existed when the gate read and
\* whether that read raised, the number of get_item calls and of download_file
\* calls it made, what the store and the gateway did in send_document ("none"
\* when it was not called), the messaging calls in order, whether put_item was
\* called ("none", "stored", "failed") and the item it replaced, and the
\* response.
Result(ev, verified, sn, rf, gets, fetches, doc, calls, put, replaced, status, reply) ==
    [ev |-> ev, verified |-> verified, seen |-> sn, rfail |-> rf, gets |-> gets,
     fetches |-> fetches, doc |-> doc, calls |-> calls,
     put |-> put, replaced |-> replaced, status |-> status, reply |-> reply]

\* ---------------------------------------------------------- contact lookup
UpperChar(ch) ==
    IF \E k \in 1..Len(LowerAlpha) : LowerAlpha[k] = ch
    THEN UpperAlpha[CHOOSE k \in 1..Len(LowerAlpha) : LowerAlpha[k] = ch]
    ELSE ch

\* str.capitalize
Capitalize(s) ==
    [k \in 1..Len(s) |-> IF k = 1 THEN UpperChar(s[k]) ELSE LowerChar(s[k])]

\* the filter comparing the Category cell as it is written in the sheet
Filtered_exact(rows, category) ==
    SelectSeq(rows, LAMBDA r : r.Category = category)

\* the rows whose Category, stripped and lower-cased, equals the category
Filtered(rows, category) ==
    SelectSeq(rows, LAMBDA r : Lower(Strip(r.Category)) = Lower(category))

ContactLine(row) == [name |-> row.Name, number |-> normalize_phone(row.Number)]

\* TelegramBot.get_contacts: the messages it sends
get_contacts(df, chat_id, category) ==
    IF "Category" \notin df.columns
    THEN << Msg(chat_id, "missing_category_column", <<>>, <<>>, <<>>) >>
    ELSE LET filtered == Filtered(df.rows, category) IN
         IF filtered = <<>>
         THEN << Msg(chat_id, "no_contacts", Capitalize(category), <<>>, <<>>) >>
         ELSE << Msg(chat_id, "contacts", Capitalize(category),
                     [k \in 1..Len(filtered) |-> ContactLine(filtered[k])], <<>>) >>

\* -------------------------------------------------------- document delivery
\* what the download and the upload of send_document can do
\* "sent"; "no_bucket" and "no_key": the bucket or the object is missing and
\* download_file raises the client's NoSuchBucket or NoSuchKey; "no_bucket_404"
\* and "no_key_404": the bucket or the object is missing and download_file
\* raises the ClientError of its HeadObject request, which is neither of the
\* two; "send_failed": the upload raises RequestException; "error" and
\* "error_after_download": anything else raises, before or after the download
DocOutcomes ==
    { "sent", "no_bucket", "no_key", "no_bucket_404", "no_key_404", "send_failed",
      "error", "error_after_download" }

\* TelegramBot.send_document: the calls it makes
send_document(chat_id, file_key, outcome) ==
    IF outcome = "sent" THEN << Msg(chat_id, "document", <<>>, <<>>, <<>>) >>
    ELSE IF outcome = "no_bucket" THEN << send_message(chat_id, "bucket_not_found") >>
    ELSE IF outcome = "no_key" THEN << send_message(chat_id, "document_not_found") >>
    ELSE IF outcome = "send_failed"
    THEN << Msg(chat_id, "document_failed", <<>>, <<>>, <<>>),
            send_message(chat_id, "document_send_error") >>
    ELSE << send_message(chat_id, "document_unexpected_error") >>

\* TelegramBot.send_document, line 262: /tmp after download_file, which writes
\* the scratch file unless it raises
download_file(files, file_key, outcome) ==
    IF outcome \in {"sent", "send_failed", "error_after_download"}
    THEN files \cup {file_key}
    ELSE files

\* send_document without its finally clause
scratch_after_kept(files, file_key) == files

\* TelegramBot.send_document: /tmp after its finally clause
scratch_after(files, file_key) == files \ {file_key}

\* --------------------------------------------------------------- dispatcher
\* line 91: the command without its leading '/'
command_of(text) == IF StartsWith(text, <<"/">>) THEN Tail(text) ELSE text

\* the dispatcher handing every unlisted token to the contact lookup
dispatch_lookup_fallback(df, chat_id, text, outcome) ==
    IF text = start_text THEN << send_message(chat_id, "welcome_back") >>
    ELSE IF text = <<>> THEN << send_message(chat_id, "text_prompt") >>
    ELSE LET command == command_of(text) IN
         IF command = document_command
         THEN send_document(chat_id, WASTE_MANAGEMENT_PDF_KEY, outcome)
         ELSE IF command = help_command
         THEN << Msg(chat_id, "help", <<>>, <<>>, help_text) >>
         ELSE get_contacts(df, chat_id, command)

\* the dispatcher answering help with the list of categories only, the
\* document command left out
dispatch_help_categories_only(df, chat_id, text, outcome) ==
    IF text = start_text THEN << send_message(chat_id, "welcome_back") >>
    ELSE IF text = <<>> THEN << send_message(chat_id, "text_prompt") >>
    ELSE LET command == command_of(text) IN
         IF command \in contact_categories THEN get_contacts(df, chat_id, command)
         ELSE IF command = document_command
         THEN send_document(chat_id, WASTE_MANAGEMENT_PDF_KEY, outcome)
         ELSE IF command = help_command
         THEN << Msg(chat_id, "help", <<>>, <<>>, SubSeq(help_text, 1, 9)) >>
         ELSE << Msg(chat_id, "unrecognized", text, <<>>, <<>>) >>

\* lambda_handler lines 80-126: the calls made for a verified chat
dispatch(df, chat_id, text, outcome) ==
    IF text = start_text THEN << send_message(chat_id, "welcome_back") >>
    ELSE IF text = <<>> THEN << send_message(chat_id, "text_prompt") >>
    ELSE LET command == command_of(text) IN
         IF command \in contact_categories THEN get_contacts(df, chat_id, command)
         ELSE IF command = document_command
         THEN send_document(chat_id, WASTE_MANAGEMENT_PDF_KEY, outcome)
         ELSE IF command = help_command
         THEN << Msg(chat_id, "help", <<>>, <<>>, help_text) >>
         ELSE << Msg(chat_id, "unrecognized", text, <<>>, <<>>) >>

\* the body of the 200 response of lines 83, 88 and 126
dispatch_reply(text) ==
    IF text = start_text THEN "start"
    ELSE IF text = <<>> THEN "non_text"
    ELSE "processed"

\* whether the dispatcher reaches send_document
IsDocumentRequest(text) ==
    text # start_text /\ text # <<>> /\ command_of(text) \notin contact_categories
    /\ command_of(text) = document_command

\* ------------------------------------------------------------------- init
LoadedDirectory == [columns |-> {"Category", "Name", "Number"}, rows |-> ContactSheet]
EmptyDirectory == [columns |-> {"Category", "Name", "Number"}, rows |-> <<>>]

\* TelegramBot.load_allowed_users_from_s3: the set after a successful load
LoadedAllowed == { normalize_phone(n) : n \in AllowedSheet }

NoNumber == [phone |-> <<>>, out |-> <<>>]

Blank == Result(NoEvent, FALSE, FALSE, FALSE, 0, 0, "none", <<>>, "none", Absent, 0, "none")

\* TelegramBot.__init__: each spreadsheet is downloaded to /tmp and loaded, or
\* the load fails and leaves an empty set / an empty directory
Loaded(loadsA, loadsC) ==
    /\ \E okA \in loadsA, okC \in loadsC :
          /\ allowed_numbers = (IF okA THEN LoadedAllowed ELSE {})
          /\ contacts_df = (IF okC THEN LoadedDirectory ELSE EmptyDirectory)
          /\ tmp_files = (IF okA THEN {ALLOWED_USERS_KEY} ELSE {})
                            \cup (IF okC THEN {CONTACTS_KEY} ELSE {})
    /\ table = [c \in Chats |-> Absent]
    /\ now = 0
    /\ inflight = EmptyBag
    /\ last = Blank

\* both environment variables set
Configured == [token |-> TRUE, bucket |-> TRUE]

InitWith(loadsA, loadsC) ==
    /\ Loaded(loadsA, loadsC)
    /\ norm = NoNumber
    /\ config = Configured

\* the allow-list loaded or not, the directory loaded
Init == InitWith(BOOLEAN, {TRUE})

\* ---------------------------------------------------------------- actions
\* an invocation waiting at line 64
Pending(ev, sn, rf) == [ev |-> ev, seen |-> sn, rfail |-> rf]

\* lambdafunction.py lines 16-21: TelegramBot(token) raises ValueError without
\* a token and the module fails to load; with a token the instance serves
Serving == config.token

\* a new invocation can start
CanStart == Serving /\ BagCardinality(inflight) < MaxInFlight

\* lines 32-49: no body, no JSON, no chat id: 400
RejectEnvelope(ev) ==
    /\ CanStart
    /\ Invalid(ev)
    /\ last' = Result(ev, FALSE, FALSE, FALSE, 0, 0, "none", <<>>, "none", Absent, 400,
                      ValidationError(ev))
    /\ UNCHANGED <<allowed_numbers, contacts_df, tmp_files, table, now, inflight, norm, config>>

\* lines 43-53 raise, lines 128-148: the handler reads the chat id again and
\* sends the apology when it finds one that int() accepts; 500
PayloadFault(ev) ==
    /\ CanStart
    /\ Faulty(ev)
    /\ last' = Result(ev, FALSE, FALSE, FALSE, 0, 0, "none", error_calls(ev), "none",
                      Absent, 500,
                      "internal_error")
    /\ UNCHANGED <<allowed_numbers, contacts_df, tmp_files, table, now, inflight, norm, config>>

\* lines 57, 71-75: not verified and no contact of the chat's own: challenge
GateChallenge(ev, getRaises) ==
    /\ CanStart
    /\ Valid(ev)
    /\ ~is_user_verified(table, chat_id_of(ev), getRaises)
    /\ ~HasOwnContact(ev)
    /\ last' = Result(ev, FALSE, IsSome(table[chat_id_of(ev)]), getRaises, 1, 0,
                      "none", << request_contact(chat_id_of(ev)) >>, "none", Absent, 200,
                      "requesting_contact")
    /\ UNCHANGED <<allowed_numbers, contacts_df, tmp_files, table, now, inflight, norm, config>>

\* lines 57-63: not verified, the chat's own contact: on to verify_contact
GateContact(ev, getRaises) ==
    /\ CanStart
    /\ Valid(ev)
    /\ ~is_user_verified(table, chat_id_of(ev), getRaises)
    /\ HasOwnContact(ev)
    /\ IsSome(Val(ev.contact).phone_number)
    /\ inflight' = inflight (+) SetToBag({Pending(ev, IsSome(table[chat_id_of(ev)]), getRaises)})
    /\ UNCHANGED <<allowed_numbers, contacts_df, tmp_files, table, now, last, norm, config>>

\* line 62 raises KeyError, lines 128-148: apology to the chat, 500
ContactFault(ev, getRaises) ==
    /\ CanStart
    /\ Valid(ev)
    /\ ~is_user_verified(table, chat_id_of(ev), getRaises)
    /\ HasOwnContact(ev)
    /\ ~IsSome(Val(ev.contact).phone_number)
    /\ last' = Result(ev, FALSE, IsSome(table[chat_id_of(ev)]), getRaises, 1, 0,
                      "none", error_calls(ev), "none", Absent, 500, "internal_error")
    /\ UNCHANGED <<allowed_numbers, contacts_df, tmp_files, table, now, inflight, norm, config>>

\* lines 64-70: verify_contact, then the confirmation or the rejection.
\* put_item is reached only for an accepted number; it succeeds or raises.
VerifyContact(r, putRaises) ==
    /\ BagIn(r, inflight)
    /\ inflight' = inflight (-) SetToBag({r})
    /\ LET ev == r.ev
           chat_id == chat_id_of(ev)
           phone == Val(Val(ev.contact).phone_number)
           verdict == verify_contact(allowed_numbers, table, chat_id, phone, now + 1, putRaises)
       IN /\ table' = verdict.table
          /\ IF verdict.accepted
             THEN /\ ~putRaises => now < MaxClock
                  /\ now' = (IF putRaises THEN now ELSE now + 1)
                  /\ last' = Result(ev, FALSE, r.seen, r.rfail, 1, 0, "none",
                                    << send_message(chat_id, "verified") >>,
                                    IF putRaises THEN "failed" ELSE "stored",
                                    IF putRaises THEN Absent ELSE table[chat_id],
                                    200, "verified")
             ELSE /\ ~putRaises
                  /\ now' = now
                  /\ last' = Result(ev, FALSE, r.seen, r.rfail, 1, 0, "none",
                                    << send_message(chat_id, "rejected") >>,
                                    "none", Absent, 200, "verification_failed")
    /\ UNCHANGED <<allowed_numbers, contacts_df, tmp_files, norm, config>>

\* the outcomes send_document can have for the text, when it is reached
OutcomesFor(text) == IF IsDocumentRequest(text) THEN DocOutcomes ELSE {"sent"}

\* lines 57, 80-126: verified: one dispatcher branch
Dispatch(ev, getRaises) ==
    /\ CanStart
    /\ Valid(ev)
    /\ is_user_verified(table, chat_id_of(ev), getRaises)
    /\ LET text == user_message_text(ev) IN
       /\ \E outcome \in OutcomesFor(text) :
             /\ last' = Result(ev, TRUE, IsSome(table[chat_id_of(ev)]), getRaises, 1,
                               IF IsDocumentRequest(text) THEN 1 ELSE 0,
                               IF IsDocumentRequest(text) THEN outcome ELSE "none",
                               dispatch(contacts_df, chat_id_of(ev), text, outcome),
                               "none", Absent, 200, dispatch_reply(text))
             /\ tmp_files' =
                   (IF IsDocumentRequest(text)
                    THEN scratch_after(
                             download_file(tmp_files, WASTE_MANAGEMENT_PDF_KEY, outcome),
                             WASTE_MANAGEMENT_PDF_KEY)
                    ELSE tmp_files)
    /\ UNCHANGED <<allowed_numbers, contacts_df, table, now, inflight, norm, config>>

\* one step of one invocation, its event drawn from events
Step(events) ==
    \/ \E ev \in events : RejectEnvelope(ev)
    \/ \E ev \in events : PayloadFault(ev)
    \/ \E ev \in events, getRaises \in BOOLEAN : GateChallenge(ev, getRaises)
    \/ \E ev \in events, getRaises \in BOOLEAN : GateContact(ev, getRaises)
    \/ \E ev \in events, getRaises \in BOOLEAN : ContactFault(ev, getRaises)
    \/ \E r \in BagToSet(inflight), putRaises \in BOOLEAN : VerifyContact(r, putRaises)
    \/ \E ev \in events, getRaises \in BOOLEAN : Dispatch(ev, getRaises)

Next == Step(GateEvents)

\* concurrent invocations at the verification gate
Spec == Init /\ [][Next]_vars

\* the dispatcher: every kind of text, the directory loaded or empty
InitDispatch == InitWith({TRUE}, BOOLEAN)
NextDispatch == Step(DispatchEvents)
SpecDispatch == InitDispatch /\ [][NextDispatch]_vars

\* the instance started with or without its token and its bucket name.
\* Without the token nothing is loaded; without the bucket name both loaders
\* return their empty value (detailsharsham.py lines 73-75, 105-107).
InitStartup ==
    /\ \E tok \in BOOLEAN, bkt \in BOOLEAN :
          /\ config = [token |-> tok, bucket |-> bkt]
          /\ Loaded({tok /\ bkt}, {tok /\ bkt})
    /\ norm = NoNumber
StartupEvents ==
    { Event("missing", Absent, TxtNone, Absent),
      Event("nonobject", Absent, TxtNone, Absent),
      ContactEvent(1, Some(1), Some(PhoneA10)),
      ContactEvent(1, Some(1), Absent),
      TextEvent(1, TxtSlashHelp), TextEvent(2, TxtSlashAuto) }
NextStartup == Step(StartupEvents)
SpecStartup == InitStartup /\ [][NextStartup]_vars

\* normalize_phone applied to a raw number
Normalize ==
    /\ norm.out = <<>>
    /\ norm' = [norm EXCEPT !.out = << normalize_phone(norm.phone) >>]
    /\ UNCHANGED <<allowed_numbers, contacts_df, tmp_files, table, now, inflight, last, config>>

\* normalize_phone applied to what it returned
Renormalize ==
    /\ Len(norm.out) = 1
    /\ norm' = [norm EXCEPT !.out = Append(@, normalize_phone(norm.out[1]))]
    /\ UNCHANGED <<allowed_numbers, contacts_df, tmp_files, table, now, inflight, last, config>>

\* the normaliser on every raw number
InitNormalize ==
    /\ Loaded({TRUE}, {TRUE})
    /\ \E p \in RawNumbers : norm = [phone |-> p, out |-> <<>>]
    /\ config = Configured
NextNormalize == Normalize \/ Renormalize
SpecNormalize == InitNormalize /\ [][NextNormalize]_vars

\* ================================================================= claims
\* helpers of the claims: the kinds of the calls an invocation made, the
\* replies of the command dispatcher, the returned invocation's chat and number
Kinds(res) == { res.calls[k].kind : k \in 1..Len(res.calls) }
DispatcherKinds ==
    { "welcome_back", "text_prompt", "contacts", "no_contacts", "missing_category_column",
      "document", "document_failed", "bucket_not_found", "document_not_found",
      "document_send_error", "document_unexpected_error", "help", "unrecognized" }
Returned == last.status # 0
OwnContactWithNumber(ev) ==
    Valid(ev) /\ HasOwnContact(ev) /\ IsSome(Val(ev.contact).phone_number)
NumberOf(ev) == Val(Val(ev.contact).phone_number)

\* C1: for a chat without a ledger record, a message carrying the chat's own
\* contact with a number that normalizes into the allow-list leaves a record
\* for the chat in the ledger when the handler returns.
C1_AcceptedContactLeavesRecord ==
    ( /\ Returned
      /\ OwnContactWithNumber(last.ev)
      /\ ~last.seen
      /\ normalize_phone(NumberOf(last.ev)) \in allowed_numbers )
    => IsSome(table[chat_id_of(last.ev)])

\* C2: every dispatcher reply goes to a chat for which the gate's read found a
\* record, and the read did not fail.
C2_DispatchOnlyForVerified ==
    \A k \in 1..Len(last.calls) :
        last.calls[k].kind \in DispatcherKinds
        => /\ last.seen
           /\ ~last.rfail
           /\ last.calls[k].to = chat_id_of(last.ev)

C2_Witness ==
    /\ "help" \in Kinds(last)
    /\ last.seen
    /\ BagCardinality(inflight) > 0

\* C3 as stated: a message of a chat whose record exists is never answered
\* with the contact-share challenge.
C3_NeverRechallenged ==
    (Returned /\ last.seen) => "request_contact" \notin Kinds(last)

\* C3 amended: a message of a chat whose record exists is answered with the
\* contact-share challenge only when the gate's read of the ledger failed.
C3_RechallengedOnlyOnReadFailure ==
    (Returned /\ last.seen /\ "request_contact" \in Kinds(last)) => last.rfail

C3_Witness ==
    /\ Returned
    /\ last.seen
    /\ ~last.rfail
    /\ last.ev.text = TxtSlashHelp
    /\ Kinds(last) = {"help"}

\* C4: the return of an invocation of an unverified chat whose own contact has
\* a number that does not normalize into the allow-list changes no ledger
\* record, sends the rejection notice and nothing else, and answers 200.
C4_UnknownNumberRejected ==
    [][ \A r \in BagToSet(inflight) :
          ( /\ inflight' = inflight (-) SetToBag({r})
            /\ ~r.seen
            /\ normalize_phone(NumberOf(r.ev)) \notin allowed_numbers )
          => /\ table' = table
             /\ last'.ev = r.ev
             /\ last'.calls = << send_message(chat_id_of(r.ev), "rejected") >>
             /\ last'.put = "none"
             /\ last'.status = 200 ]_vars

C4_Witness ==
    /\ Returned
    /\ OwnContactWithNumber(last.ev)
    /\ ~last.seen
    /\ allowed_numbers # {}
    /\ normalize_phone(NumberOf(last.ev)) \notin allowed_numbers
    /\ Kinds(last) = {"rejected"}
    /\ ~IsSome(table[chat_id_of(last.ev)])

\* C5: an invocation of an unverified chat whose message carries a contact
\* with another user_id than the chat id returns without a ledger write and
\* without going on to verification; its only call is one contact-share
\* challenge.
C5_ForeignContactOnlyChallenged ==
    [][ ( /\ last' # last
          /\ Valid(last'.ev)
          /\ IsSome(last'.ev.contact)
          /\ Val(last'.ev.contact).user_id # last'.ev.chat
          /\ ~last'.seen )
        => /\ table' = table
           /\ inflight' = inflight
           /\ last'.put = "none"
           /\ last'.calls = << request_contact(chat_id_of(last'.ev)) >> ]_vars

C5_Witness ==
    /\ Returned
    /\ last.ev = ContactEvent(1, Some(2), Some(PhoneA10))
    /\ normalize_phone(PhoneA10) \in allowed_numbers
    /\ ~last.seen
    /\ Kinds(last) = {"request_contact"}
    /\ ~IsSome(table[1])

\* C6: a ledger record that exists for a chat exists after every step.
C6_VerifiedIsTerminal ==
    [][ \A c \in Chats : IsSome(table[c]) => IsSome(table'[c]) ]_vars

\* a record exists and survived a later verification whose put_item raised
C6_Witness ==
    /\ Returned
    /\ last.seen
    /\ last.put = "failed"
    /\ IsSome(table[chat_id_of(last.ev)])

\* C7 as stated: once the record of a chat is created no step writes it again:
\* the item, its phone number included, stays what the first put stored.
C7_WrittenOnce ==
    [][ \A c \in Chats : IsSome(table[c]) => table'[c] = table[c] ]_vars

\* C7 amended: every write of a chat's record is the put of an in-flight
\* invocation that carries the chat's own contact with a number normalizing
\* into the allow-list, and whose gate read found no record or failed; it stores
\* that normalized number.  No invocation whose read returned the record writes.
C7_PutOnlyPastTheGate ==
    [][ \A c \in Chats :
          table'[c] # table[c]
          => \E r \in BagToSet(inflight) :
                /\ inflight' = inflight (-) SetToBag({r})
                /\ OwnContactWithNumber(r.ev)
                /\ chat_id_of(r.ev) = c
                /\ r.seen => r.rfail
                /\ normalize_phone(NumberOf(r.ev)) \in allowed_numbers
                /\ table'[c] = Some(Item(c, normalize_phone(NumberOf(r.ev)), now')) ]_vars

\* a record was put over an existing one, with another number
C7_Witness ==
    /\ last.put = "stored"
    /\ IsSome(last.replaced)
    /\ Val(last.replaced).phone_number # Val(table[chat_id_of(last.ev)]).phone_number

C9_NoContactChallenged ==
    [][ ( /\ last' # last
          /\ Valid(last'.ev)
          /\ ~IsSome(last'.ev.contact)
          /\ ~last'.seen )
        => /\ last'.status = 200
           /\ last'.calls = << request_contact(chat_id_of(last'.ev)) >>
           /\ last'.put = "none"
           /\ table' = table
           /\ inflight' = inflight ]_vars

C9_Witness ==
    /\ Returned
    /\ last.ev = TextEvent(1, TxtSlashHelp)
    /\ ~last.seen
    /\ ~last.rfail
    /\ last.status = 200
    /\ Kinds(last) = {"request_contact"}
    /\ ~IsSome(table[1])

\* the branch the dispatcher is to take for a lower-cased, stripped text: the
\* prompt for an empty text, else the first of start, category, document, help
\* whose condition the token satisfies, else the fallback
ExpectedBranch(text) ==
    IF text = <<>> THEN "empty"
    ELSE LET token == command_of(text) IN
         IF token = TxtStart THEN "start"
         ELSE IF token \in contact_categories THEN "category"
         ELSE IF token = document_command THEN "document"
         ELSE IF token = help_command THEN "help"
         ELSE "fallback"

\* the branch a call belongs to
BranchOfKind(kind) ==
    IF kind = "text_prompt" THEN "empty"
    ELSE IF kind = "welcome_back" THEN "start"
    ELSE IF kind \in {"contacts", "no_contacts", "missing_category_column"} THEN "category"
    ELSE IF kind \in {"document", "document_failed", "bucket_not_found", "document_not_found",
                      "document_send_error", "document_unexpected_error"} THEN "document"
    ELSE IF kind = "help" THEN "help"
    ELSE IF kind = "unrecognized" THEN "fallback"
    ELSE "none"

\* C10: for a message of a verified chat the calls made are those of exactly
\* one dispatcher branch, the first in the order start, category, document,
\* help, fallback whose condition the token satisfies.
C10_FirstMatchingBranch ==
    (Returned /\ last.verified)
    => { BranchOfKind(k) : k \in Kinds(last) } = { ExpectedBranch(user_message_text(last.ev)) }

\* the returned invocation was dispatched: its text and its token
DispatchedText == user_message_text(last.ev)
DispatchedToken == command_of(DispatchedText)
Dispatched == Returned /\ last.verified

\* C11: for a verified chat a text whose lower-cased form, a single leading
\* '/' stripped, equals "start" is answered with the welcome-back
\* acknowledgment and with no other dispatcher reply.
C11_StartWithOrWithoutMarker ==
    (Dispatched /\ DispatchedToken = TxtStart)
    => last.calls = << send_message(chat_id_of(last.ev), "welcome_back") >>

\* the indices of the directory rows whose category, trimmed and lower-cased,
\* equals the token, and the k-th of them in file order
MatchingRows(token) ==
    { k \in 1..Len(contacts_df.rows) : Lower(Strip(contacts_df.rows[k].Category)) = token }
KthMatch(token, i) ==
    CHOOSE k \in MatchingRows(token) :
        Cardinality({ j \in MatchingRows(token) : j <= k }) = i

\* C12: the lookup of a category token sends a single message; it lists all
\* and only the directory rows whose trimmed, lower-cased category equals the
\* token, one line per row in file order, and when no row matches it is the
\* 'no contacts found' message naming the category.
C12_LookupListsMatchingRows ==
    (Dispatched /\ DispatchedText # start_text /\ DispatchedToken \in contact_categories)
    => /\ Len(last.calls) = 1
       /\ last.calls[1].to = chat_id_of(last.ev)
       /\ Lower(last.calls[1].arg) = DispatchedToken
       /\ IF MatchingRows(DispatchedToken) = {}
          THEN last.calls[1].kind = "no_contacts" /\ last.calls[1].lines = <<>>
          ELSE /\ last.calls[1].kind = "contacts"
               /\ Len(last.calls[1].lines) = Cardinality(MatchingRows(DispatchedToken))
               /\ \A i \in 1..Len(last.calls[1].lines) :
                     /\ last.calls[1].lines[i].name
                           = contacts_df.rows[KthMatch(DispatchedToken, i)].Name
                     /\ last.calls[1].lines[i].number
                           = normalize_phone(contacts_df.rows[KthMatch(DispatchedToken, i)].Number)

\* two rows of the category were listed, a row of another category between
\* them left out
C12_Witness ==
    /\ Dispatched
    /\ DispatchedToken = <<"a", "u", "t", "o">>
    /\ Kinds(last) = {"contacts"}
    /\ Len(last.calls[1].lines) = 2
    /\ Len(contacts_df.rows) = 3
    /\ last.calls[1].lines[1].name = "Ravi"
    /\ last.calls[1].lines[2].name = "Anil"

\* a token outside the dispatcher's lists: no start, category, document or help
UnlistedToken ==
    /\ DispatchedText # <<>>
    /\ DispatchedText # start_text
    /\ DispatchedToken # TxtStart
    /\ DispatchedToken \notin contact_categories
    /\ DispatchedToken # document_command
    /\ DispatchedToken # help_command

\* C13 as stated: for a verified chat a token that is not a known category is
\* answered with the 'no contacts found' message and nothing else happens.
C13_UnknownTokenNoContacts ==
    (Dispatched /\ UnlistedToken) => Kinds(last) = {"no_contacts"}

\* C13 amended: for a verified chat a token outside the dispatcher's lists is
\* answered with one 'unrecognized command' message echoing the text, with no
\* ledger write and no fetch from the store; the 'no contacts found' message
\* is sent only for a listed category that has no row in the directory.
C13_UnknownTokenUnrecognized ==
    /\ (Dispatched /\ UnlistedToken)
       => /\ last.calls = << Msg(chat_id_of(last.ev), "unrecognized", DispatchedText, <<>>, <<>>) >>
          /\ last.put = "none"
          /\ last.fetches = 0
          /\ last.status = 200
    /\ (Dispatched /\ "no_contacts" \in Kinds(last))
       => /\ DispatchedToken \in contact_categories
          /\ MatchingRows(DispatchedToken) = {}

C13_Witness ==
    /\ Dispatched
    /\ last.ev.text = TxtUnknown
    /\ Kinds(last) = {"unrecognized"}
    /\ last.calls[1].arg = TxtUnknown

\* the help message lists every category token and the document token
ListsAllCommands(msg) ==
    /\ \A c \in contact_categories : \E k \in 1..Len(msg.items) : msg.items[k] = c
    /\ \E k \in 1..Len(msg.items) : msg.items[k] = document_command

\* C14 as stated: "/help" from a verified chat returns 200, sends exactly one
\* message that lists every category token and the document token, and makes
\* no ledger call and no call to the directory store.
C14_HelpWithoutLedgerCall ==
    (Dispatched /\ DispatchedText = TxtSlashHelp)
    => /\ last.status = 200
       /\ Len(last.calls) = 1
       /\ ListsAllCommands(last.calls[1])
       /\ last.gets = 0
       /\ last.put = "none"
       /\ last.fetches = 0

\* C14 amended: "/help" from a verified chat returns 200, sends exactly one
\* message that lists every category token and the document token, reads the
\* ledger once (the gate's get_item, which found the record), writes nothing
\* to the ledger and makes no call to the directory store.
C14_HelpReadsLedgerOnce ==
    (Dispatched /\ DispatchedText = TxtSlashHelp)
    => /\ last.status = 200
       /\ Len(last.calls) = 1
       /\ last.calls[1].kind = "help"
       /\ last.calls[1].to = chat_id_of(last.ev)
       /\ ListsAllCommands(last.calls[1])
       /\ last.gets = 1
       /\ last.seen /\ ~last.rfail
       /\ last.put = "none"
       /\ last.fetches = 0

C14_Witness ==
    /\ Dispatched
    /\ last.ev.text = TxtHelpMixed
    /\ DispatchedText = TxtSlashHelp
    /\ Kinds(last) = {"help"}
    /\ last.gets = 1

\* C15: after a document delivery returns, whichever way it went (sent, bucket
\* unreachable, key not found, transport failure, any other fault), the
\* scratch file does not exist, and the other files under /tmp are untouched.
C15_ScratchFileRemoved ==
    [][ (last' # last /\ last'.fetches = 1)
        => /\ WASTE_MANAGEMENT_PDF_KEY \notin tmp_files'
           /\ tmp_files' = tmp_files \ {WASTE_MANAGEMENT_PDF_KEY} ]_vars

\* the document was downloaded, its upload failed, the file is gone
C15_Witness ==
    /\ Dispatched
    /\ last.fetches = 1
    /\ "document_send_error" \in Kinds(last)
    /\ WASTE_MANAGEMENT_PDF_KEY \notin tmp_files
    /\ CONTACTS_KEY \in tmp_files

\* C16: a webhook without body, with a body that is malformed or does not
\* decode to a JSON chat update, or with an update without chat id is answered
\* with 400, sends nothing and neither reads nor writes the ledger.
C16_BadEnvelopeIs400 ==
    (Returned /\ (Invalid(last.ev) \/ last.ev.body \in {"null", "nonobject"}))
    => /\ last.status = 400
       /\ last.calls = <<>>
       /\ last.gets = 0
       /\ last.put = "none"

\* an invocation past the gate can take its last step
CanReturn(r) == ENABLED (\E putRaises \in BOOLEAN : VerifyContact(r, putRaises))

\* C17: every invocation returns one response with status 200, 400 or 500,
\* whatever the payload and whatever get_item and put_item do: no invocation
\* past the gate is stuck, a payload that makes the handler raise is answered
\* with 500, and a 500 comes after at most one call, the apology to the chat.
C17_AlwaysOneResponse ==
    /\ Returned => last.status \in {200, 400, 500}
    /\ (Returned /\ Faulty(last.ev)) => last.status = 500
    /\ last.status = 500
       => /\ Len(last.calls) <= 1
          /\ \A k \in 1..Len(last.calls) :
                last.calls[k] = send_message(chat_id_of(last.ev), "apology")
          /\ last.put = "none"
    /\ \A r \in BagToSet(inflight) : CanReturn(r)

\* the text of the update was no string: an apology, then 500, while another
\* invocation is past the gate
C17_Witness ==
    /\ last.status = 500
    /\ last.ev.bad = {"text"}
    /\ Kinds(last) = {"apology"}
    /\ BagCardinality(inflight) > 0

\* the canonical string of the 10-digit number a \o b
Canonical(a, b) == <<"+", "9", "1", " ">> \o a \o <<" ">> \o b

\* C18: every 10-digit number normalizes to "+91 ", its first five digits, a
\* space and its last five digits, and so does the number written with the
\* 2-digit country code or with "+91" in front, whatever separators it has.
C18_CanonicalForAllWritings ==
    \A a \in Halves, b \in Halves :
        (norm.phone \in WrittenForms(a, b) /\ norm.out # <<>>)
        => norm.out[1] = Canonical(a, b)

\* a number written with "+91" and no separator was normalized
C18_Witness ==
    /\ Len(norm.out) >= 1
    /\ norm.phone = <<"+", "9", "1", "9", "1", "2", "3", "4", "4", "3", "2", "1", "0">>
    /\ norm.out[1] = <<"+", "9", "1", " ", "9", "1", "2", "3", "4", " ", "4", "3", "2", "1", "0">>

\* the shape of the strings of the 10/12/13-digit branches: "+91 ddddd ddddd"
IsCanonical(x) ==
    /\ Len(x) = 15
    /\ SubSeq(x, 1, 4) = <<"+", "9", "1", " ">>
    /\ x[10] = " "
    /\ \A k \in (5..9) \cup (11..15) : x[k] \in Digits

\* C19: normalize_phone applied to a canonical string it returned gives that
\* string again.
C19_IdempotentOnCanonical ==
    (Len(norm.out) = 2 /\ IsCanonical(norm.out[1])) => norm.out[2] = norm.out[1]

C19_Witness ==
    /\ Len(norm.out) = 2
    /\ norm.phone = PhoneA10
    /\ IsCanonical(norm.out[1])
    /\ norm.out[2] = norm.out[1]

\* C20: a ledger failure counts as not verified: when the gate's get_item
\* raises no command is dispatched for the message, and when put_item raises
\* during verification the chat is not told that it is verified.
C20_LedgerFailureMeansNotVerified ==
    /\ (Returned /\ last.rfail) => Kinds(last) \cap DispatcherKinds = {}
    /\ last.put = "failed"
       => /\ "verified" \notin Kinds(last)
          /\ last.reply # "verified"

\* C21: an instance started without the bot token or without the bucket name
\* serves no invocation: it reads no ledger record and sends no message.
C21_MisconfiguredNeverServes ==
    (~config.token \/ ~config.bucket)
    => /\ last.gets = 0
       /\ last.calls = <<>>
       /\ inflight = EmptyBag

\* the failure modes of the document delivery and the notice of each
FailureMode(doc) ==
    IF doc \in {"no_bucket", "no_bucket_404"} THEN "bucket_unreachable"
    ELSE IF doc \in {"no_key", "no_key_404"} THEN "key_not_found"
    ELSE IF doc = "send_failed" THEN "send_failure"
    ELSE "none"
NoticeOf(mode) ==
    IF mode = "bucket_unreachable" THEN "bucket_not_found"
    ELSE IF mode = "key_not_found" THEN "document_not_found"
    ELSE "document_send_error"

\* the text messages among the calls of an invocation, in order
TextNotices(res) ==
    SelectSeq(res.calls, LAMBDA m : m.kind \notin {"document", "document_failed"})

\* C22: when a verified chat requests the document and the bucket is
\* unreachable, the object key is not found or the upload fails, the chat gets
\* exactly one text notice, the one of that failure mode and of no other, and
\* the handler returns 200.
C22_EachFailureItsOwnNotice ==
    (Dispatched /\ FailureMode(last.doc) # "none")
    => /\ last.status = 200
       /\ Len(TextNotices(last)) = 1
       /\ TextNotices(last)[1].to = chat_id_of(last.ev)
       /\ TextNotices(last)[1].kind = NoticeOf(FailureMode(last.doc))

\* C23: every ledger record is the record of its key and holds a number of
\* the allow-list, so that no record exists when the allow-list loaded empty;
\* and every step that writes a record is the return of an invocation whose
\* message carried a contact with the record's chat id as user_id.
C23_RecordsAreAllowedAndOwn ==
    /\ [](\A c \in Chats :
            IsSome(table[c])
            => /\ Val(table[c]).chat_id = c
               /\ Val(table[c]).phone_number \in allowed_numbers)
    /\ [][ \A c \in Chats :
             table'[c] # table[c]
             => \E r \in BagToSet(inflight) :
                   /\ inflight' = inflight (-) SetToBag({r})
                   /\ last'.ev = r.ev
                   /\ IsSome(r.ev.contact)
                   /\ Val(r.ev.contact).user_id = Some(c) ]_vars

\* a record was written for the chat with the number of its own contact,
\* sent in another writing than the allow-list has
C23_Witness ==
    /\ last.put = "stored"
    /\ last.ev = ContactEvent(1, Some(1), Some(PhoneA91))
    /\ IsSome(table[1])
    /\ Val(table[1]).phone_number = normalize_phone(PhoneA10)
    /\ Val(table[1]).phone_number \in allowed_numbers
    /\ PhoneA91 \notin AllowedSheet

====
